---- MODULE Spec2Model ----
(***************************************************************************)
(* The technical-indicator worker: one producer task that sweeps the       *)
(* enabled indicator configurations and sends Jobs over a bounded channel, *)
(* one consumer loop that processes them, the in-flight lease kept in the  *)
(* key-value cache, the calculated_indicators table behind the batch       *)
(* upsert, and the in-process completeness cache.                          *)
(*                                                                         *)
(* Every indicator configuration of the model is an RSI over the same      *)
(* (symbol, interval); its one parameter is the period, so a fingerprint   *)
(* (symbol, interval, name, parameters) is identified by its period.       *)
(* Candle i of the pair (i = 1..nCandles) has open time i, counted in      *)
(* candle intervals.                                                       *)
(***************************************************************************)
EXTENDS Integers, Sequences, FiniteSets, TLC

\* ------------------------------------------------------------------ bounds
\* largest period among the configurations: fingerprints are 0..MaxPeriod
MaxPeriod == 1
\* largest number of candles the loader delivers for the pair
MaxCandles == 2
\* capacity of the job channel (mpsc::channel(1000) in the code), scaled down
ChannelCapacity == 1
\* WorkerConfig.batch_size (1000 in the code), scaled down
BatchSize == 2
\* the wall clock advances MaxTicks times, TickMinutes minutes at a time
MaxTicks == 1
TickMinutes == 30
\* longest batch handed to the gateway when it is exercised on its own
MaxBatchLen == 2
\* the values a calculated point can carry when the gateway is exercised on its own
MaxValue == 2
\* Worker.concurrency_limit: the permits of the semaphore
ConcurrencyLimit == 2
\* when the completeness cache is exercised on its own, the wall clock advances
\* MaxCacheSteps times, CacheStepMinutes minutes at a time
MaxCacheSteps == 4
CacheStepMinutes == 10
\* when the completeness derivation is exercised on its own, its timestamps are
\* whole half hours: 0..MaxNearSteps for a short candle history, and
\* FarStep - MaxLagSteps..FarStep for a long one
MaxNearSteps == 3
FarStep == 1000
MaxLagSteps == 50

\* ------------------------------------------------------------------ constants
\* CompletenessCache::default ttl_minutes
ttl_minutes == 30

Fingerprints == 0..MaxPeriod
NoSeries == -1
NoJob == -1
NoTime == -1
\* open time of candle i in seconds: the pair's interval is "1h"
CandleTime(i) == i * 3600
Outcome == {"ok", "err"}

VARIABLES
    prodPc,       \* where job_producer stands
    configs,      \* the configurations of the current sweep not yet handled
    channel,      \* Jobs sent and not yet received
    lease,        \* job keys present in the key-value cache
    candleCache,  \* length of the candle series cached under candles:<pair>, or NoSeries
    nCandles,     \* candles of the pair in binance_candles
    consPc,       \* where job_consumer / process_job stands
    consJob,      \* the Job the consumer holds, or NoJob
    series,       \* length of the candle series process_job computes over, or NoSeries
    results,      \* the points the kernel returned for consJob
    sent,         \* how many of them have been handed to the gateway
    calculated,   \* rows of calculated_indicators
    ccache,       \* completeness cache: fingerprint -> record
    now,          \* wall clock, in minutes
    leaseFault,   \* history: a producer lease call failed or a lease key expired
    retryDue,     \* history: fingerprints whose last Job ended failed and had its lease
                  \* key deleted by the consumer, not yet examined by a sweep since
    gwLast,       \* history: the last call of the gateway made on its own
    permits,      \* free permits of the semaphore
    lastJob,      \* history: for each fingerprint, the sweep ("current" or
                  \* "previous") that enqueued a Job for it, if that Job has not
                  \* failed and no candle has arrived since; else "none"
    cacheLog,     \* history: for each fingerprint, when the completeness cache was
                  \* last updated for it since it was last removed or cleared
    probe         \* the timestamps handed to the completeness derivation when it
                  \* is exercised on its own, and the record it derived

prodVars == <<prodPc, configs>>
consVars == <<consPc, consJob, series, results, sent, permits>>
gwVars == <<gwLast>>
\* the variables of the components that are also exercised on their own
aloneVars == <<gwVars, cacheLog, probe>>
vars == <<prodPc, configs, channel, lease, candleCache, nCandles, consPc, consJob,
          series, results, sent, calculated, ccache, now, leaseFault, retryDue,
          gwLast, permits, lastJob, cacheLog, probe>>

\* ------------------------------------------------------------------ store
Key(r) == <<r.fp, r.time>>

\* upsert_row with the conflict arm adding to the stored value instead of
\* replacing it
upsert_row_accumulates(st, r) ==
    IF \E x \in st : Key(x) = Key(r)
    THEN {IF Key(x) = Key(r) THEN [x EXCEPT !.value = x.value + r.value] ELSE x : x \in st}
    ELSE st \cup {r}

\* upsert_row with ON CONFLICT DO NOTHING
upsert_row_keeps_old(st, r) ==
    IF \E x \in st : Key(x) = Key(r) THEN st ELSE st \cup {r}

\* INSERT ... ON CONFLICT (symbol, interval, indicator_name, parameters, time)
\* DO UPDATE SET value = EXCLUDED.value, for one row
upsert_row(st, r) ==
    IF \E x \in st : Key(x) = Key(r)
    THEN {IF Key(x) = Key(r) THEN [x EXCEPT !.value = r.value] ELSE x : x \in st}
    ELSE st \cup {r}

\* the rows of batch[i..] executed in order inside the transaction; the rows
\* whose execute returned an error are logged and skipped
RECURSIVE exec_rows(_, _, _, _)
exec_rows(st, batch, rowErr, i) ==
    IF i > Len(batch) THEN st
    ELSE exec_rows(IF i \in rowErr THEN st ELSE upsert_row(st, batch[i]),
                   batch, rowErr, i + 1)

\* rowErr: the rows whose execute returns an error; txAborts: the error left the
\* transaction aborted on the server, so that every later statement fails too
\* and COMMIT ends it with a rollback that is reported as success; commitOk:
\* begin() and commit() succeed
insert_calculated_indicators_batch(st, batch, rowErr, txAborts, commitOk) ==
    IF batch = <<>> THEN [store |-> st, result |-> "ok"]
    ELSE IF ~commitOk THEN [store |-> st, result |-> "err"]
    ELSE IF rowErr # {} /\ txAborts THEN [store |-> st, result |-> "ok"]
    ELSE [store |-> exec_rows(st, batch, rowErr, 1), result |-> "ok"]

\* SELECT MAX(time), COUNT(id) FROM calculated_indicators WHERE <fingerprint>
get_indicator_completeness(f) ==
    LET rows == {r \in calculated : r.fp = f}
        Max(S) == CHOOSE m \in S : \A x \in S : x <= m
    IN [last_time |-> IF rows = {} THEN 0 ELSE Max({r.time : r \in rows}),
        count |-> Cardinality(rows)]

\* ------------------------------------------------------------------ kernel
Period(f) == f

\* OscillatorCalculator::calculate_rsi over a series of n candles: an error when
\* the series is shorter than period + 1 or the period is 0, else one point for
\* each index period..n-1 (candle period+1..n)
calculate_rsi(f, n) ==
    IF n < Period(f) + 1 THEN [ok |-> FALSE, points |-> <<>>]
    ELSE IF Period(f) = 0 THEN [ok |-> FALSE, points |-> <<>>]
    ELSE [ok |-> TRUE,
          points |-> [i \in 1..(n - Period(f)) |->
                         [fp |-> f, time |-> Period(f) + i, value |-> 100]]]

\* ------------------------------------------------------------------ completeness cache
\* integer division that truncates toward zero, as an `as i32` cast of a quotient
TruncDiv(a, b) == IF a >= 0 THEN a \div b ELSE -((-a) \div b)

Min(a, b) == IF a <= b THEN a ELSE b

\* CompletenessInfo::from_job
from_job(f) ==
    [present |-> TRUE, fp |-> f, data_count |-> 0, coverage_percent |-> 0,
     is_complete |-> FALSE, updated_at |-> now]

NoRecord == [present |-> FALSE]

\* CompletenessInfo::is_valid
is_valid(info) == now - info.updated_at < ttl_minutes

\* CompletenessCache::get
cache_get(f) == IF ccache[f].present /\ is_valid(ccache[f]) THEN ccache[f] ELSE NoRecord

\* CompletenessController::is_job_complete
is_job_complete(f) == cache_get(f).present /\ cache_get(f).is_complete

\* CompletenessCache::update: the record replaces the one stored under its key
update(cache, info) == [cache EXCEPT ![info.fp] = info]

\* remove that leaves the map as it is
remove_nothing(cache, f) == cache

\* CompletenessCache::remove
remove(cache, f) == [cache EXCEPT ![f] = NoRecord]

\* CompletenessCache::clear
clear == [f \in Fingerprints |-> NoRecord]

\* chrono Duration::num_hours of a span given in seconds: whole hours, the rest
\* dropped
num_hours(seconds) == TruncDiv(seconds, 3600)

\* coverage_percent without the `.min(100.0)`
coverage_percent_uncapped(first_candle, last_candle, last_calc) ==
    TruncDiv((last_calc - first_candle) * 100, last_candle - first_candle)

\* initialize_cache, for a positive candle span:
\* `((calc_span as f64 / candle_span as f64) * 100.0).min(100.0) as i32`; times
\* are in seconds
coverage_percent(first_candle, last_candle, last_calc) ==
    Min(TruncDiv((last_calc - first_candle) * 100, last_candle - first_candle), 100)

\* initialize_cache, the two derived fields of a record from the three
\* timestamps (NoTime for None): they keep the values of from_job unless all
\* three are defined and the candle span is positive
derive_coverage(first_candle, last_candle, last_calc) ==
    IF /\ first_candle # NoTime /\ last_candle # NoTime /\ last_calc # NoTime
       /\ last_candle - first_candle > 0
    THEN LET coverage == coverage_percent(first_candle, last_candle, last_calc)
             freshness == num_hours(last_candle - last_calc)
         IN [coverage_percent |-> coverage,
             is_complete |-> (freshness <= 24 /\ coverage >= 95)]
    ELSE [coverage_percent |-> 0, is_complete |-> FALSE]

\* the record initialize_cache derives for one configuration; rangeOk and
\* completenessOk say whether the two store reads succeeded
derive_info(f, rangeOk, completenessOk) ==
    LET haveRange == rangeOk /\ nCandles > 0
        first == IF haveRange THEN CandleTime(1) ELSE NoTime
        last == IF haveRange THEN CandleTime(nCandles) ELSE NoTime
        c == get_indicator_completeness(f)
        last_calc == IF c.last_time = 0 THEN NoTime ELSE CandleTime(c.last_time)
        d == derive_coverage(first, last, last_calc)
    IN IF ~completenessOk THEN from_job(f)
       ELSE [from_job(f) EXCEPT !.data_count = c.count,
                                !.coverage_percent = d.coverage_percent,
                                !.is_complete = d.is_complete]

\* CompletenessController::initialize_cache: every enabled configuration gets a
\* record derived from the store; a failed enumeration changes nothing
initialize_cache ==
    /\ \E enumOk \in BOOLEAN :
         IF ~enumOk THEN UNCHANGED <<ccache, cacheLog>>
         ELSE \E rangeOk \in BOOLEAN, okSet \in SUBSET Fingerprints :
                /\ ccache' = [f \in Fingerprints |-> derive_info(f, rangeOk, f \in okSet)]
                /\ cacheLog' = [f \in Fingerprints |-> now]
    /\ UNCHANGED <<prodVars, channel, lease, candleCache, nCandles, consVars,
                   calculated, now, leaseFault, retryDue, gwVars, lastJob, probe>>

\* ------------------------------------------------------------------ producer
\* what the rest of the sweep is once the head configuration has been handled:
\* the next configuration, or the 60 second sleep after the last one
next_config ==
    /\ configs' = Tail(configs)
    /\ prodPc' = IF Tail(configs) = <<>> THEN "sleep60" ELSE "examine"

\* the configurations get_enabled_indicator_configs returns, in a fixed order
RECURSIVE enabled_configs(_)
enabled_configs(f) ==
    IF f > MaxPeriod THEN <<>> ELSE <<f>> \o enabled_configs(f + 1)

\* on_get_configs_error with the error propagated out of job_producer
on_get_configs_error_returns ==
    /\ prodPc' = "exited"
    /\ configs' = <<>>

\* job_producer, Err arm of get_enabled_indicator_configs: log, sleep 5 s, retry
on_get_configs_error ==
    /\ prodPc' = "sleep5"
    /\ configs' = <<>>

\* a new sweep begins: the Jobs of the sweep before become those of the previous
\* sweep, older ones are forgotten
NoEnqueue == "none"

age_sweeps(lj) ==
    [f \in Fingerprints |-> IF lj[f] = "current" THEN "previous" ELSE NoEnqueue]

\* job_producer: configs <- get_enabled_indicator_configs
producer_enumerate ==
    /\ prodPc = "enumerate"
    /\ \E r \in Outcome :
         IF r = "err" THEN on_get_configs_error /\ UNCHANGED lastJob
         ELSE /\ configs' = enabled_configs(0)
              /\ prodPc' = IF enabled_configs(0) = <<>> THEN "sleep60" ELSE "examine"
              /\ lastJob' = age_sweeps(lastJob)
    /\ UNCHANGED <<channel, lease, candleCache, nCandles, consVars, calculated,
                   ccache, now, leaseFault, retryDue, aloneVars>>

\* job_producer: the 5 second sleep after a failed enumeration, then `continue`
producer_sleep5 ==
    /\ prodPc = "sleep5"
    /\ prodPc' = "enumerate"
    /\ UNCHANGED <<configs, channel, lease, candleCache, nCandles, consVars,
                   calculated, ccache, now, leaseFault, retryDue, lastJob, aloneVars>>

\* job_producer: the 60 second sleep between two sweeps
producer_sleep60 ==
    /\ prodPc = "sleep60"
    /\ prodPc' = "enumerate"
    /\ UNCHANGED <<configs, channel, lease, candleCache, nCandles, consVars,
                   calculated, ccache, now, leaseFault, retryDue, lastJob, aloneVars>>

\* lease_says_in_progress with the answer of redis.exists ignored
lease_never_in_progress(exists) == FALSE

\* job_producer: `if let Ok(exists) = redis.exists(key) { if exists { continue } }`;
\* exists is "true", "false" or "err"
lease_says_in_progress(exists) == exists = "true"

\* job_producer, for the head configuration: get_last_calculated_time (an error
\* skips the configuration), then the lease check; the completeness cache is
\* not consulted
producer_examine ==
    /\ prodPc = "examine"
    /\ LET f == Head(configs) IN
       \E lastTime \in Outcome, existsCall \in Outcome :
         LET exists == IF existsCall = "err" THEN "err"
                       ELSE IF f \in lease THEN "true" ELSE "false"
         IN IF lastTime = "err" THEN next_config /\ UNCHANGED leaseFault
            ELSE IF lease_says_in_progress(exists) THEN next_config /\ UNCHANGED leaseFault
            ELSE /\ prodPc' = "send"
                 /\ configs' = configs
                 /\ leaseFault' = (leaseFault \/ exists = "err")
    /\ retryDue' = retryDue \ {Head(configs)}
    /\ UNCHANGED <<channel, lease, candleCache, nCandles, consVars, calculated,
                   ccache, now, lastJob, aloneVars>>

\* producer_send with try_send in the place of send: a Job that finds the
\* channel full is discarded
producer_send_drops ==
    /\ prodPc = "send"
    /\ channel' = IF Len(channel) < ChannelCapacity
                  THEN Append(channel, Head(configs)) ELSE channel
    /\ prodPc' = "set_lease"
    /\ lastJob' = [lastJob EXCEPT ![Head(configs)] = "current"]
    /\ UNCHANGED <<configs, lease, candleCache, nCandles, consVars, calculated,
                   ccache, now, leaseFault, retryDue, aloneVars>>

\* job_producer: job_tx.send(job).await, which waits while the channel is full
producer_send ==
    /\ prodPc = "send"
    /\ Len(channel) < ChannelCapacity
    /\ channel' = Append(channel, Head(configs))
    /\ prodPc' = "set_lease"
    /\ lastJob' = [lastJob EXCEPT ![Head(configs)] = "current"]
    /\ UNCHANGED <<configs, lease, candleCache, nCandles, consVars, calculated,
                   ccache, now, leaseFault, retryDue, aloneVars>>

\* job_producer: redis.set(job_key, {status, queued_at}, 600 s) after the send;
\* a failure is logged and the key stays absent
producer_set_lease ==
    /\ prodPc = "set_lease"
    /\ \E r \in Outcome :
         /\ lease' = IF r = "ok" THEN lease \cup {Head(configs)} ELSE lease
         /\ leaseFault' = (leaseFault \/ r = "err")
    /\ next_config
    /\ UNCHANGED <<channel, candleCache, nCandles, consVars, calculated, ccache,
                   now, retryDue, lastJob, aloneVars>>

\* ------------------------------------------------------------------ consumer
\* job_consumer: job_rx.recv(), then semaphore.acquire(); the one consumer holds
\* no permit when it comes here, so the acquire never waits
consumer_recv ==
    /\ consPc = "recv"
    /\ channel # <<>>
    /\ permits > 0
    /\ permits' = permits - 1
    /\ consJob' = Head(channel)
    /\ channel' = Tail(channel)
    /\ consPc' = "candles"
    /\ UNCHANGED <<prodVars, lease, candleCache, nCandles, series, results, sent,
                   calculated, ccache, now, leaseFault, retryDue, lastJob, aloneVars>>

\* process_job, candle read: the cached series if redis holds one, else the
\* store's series, which is then cached; an error of redis.get or of
\* get_candle_data fails the Job, an error of redis.set is only logged
fetch_candle_data(redisGet, pgRead, redisSet) ==
    IF redisGet = "err" THEN [ok |-> FALSE, data |-> NoSeries, cache |-> candleCache]
    ELSE IF candleCache # NoSeries
    THEN [ok |-> TRUE, data |-> candleCache, cache |-> candleCache]
    ELSE IF pgRead = "err" THEN [ok |-> FALSE, data |-> NoSeries, cache |-> candleCache]
    ELSE [ok |-> TRUE, data |-> nCandles,
          cache |-> IF redisSet = "ok" THEN nCandles ELSE candleCache]

\* the consumer goes back to recv without touching the lease: the two early
\* `return Ok(())` of process_job
job_returns_early ==
    /\ consPc' = "recv"
    /\ consJob' = NoJob
    /\ series' = NoSeries
    /\ results' = <<>>
    /\ sent' = 0
    /\ permits' = permits + 1

\* process_job returned Err: job_consumer goes on to delete the lease
job_errs(n) ==
    /\ consPc' = "delete_failed"
    /\ consJob' = consJob
    /\ series' = n
    /\ results' = <<>>
    /\ sent' = 0
    /\ permits' = permits

\* how the consumer's Job ended (process_job returned Ok: "committed", Err:
\* "failed"), noted for the Job's fingerprint
record_outcome(st) ==
    lastJob' = IF st = "failed" THEN [lastJob EXCEPT ![consJob] = NoEnqueue] ELSE lastJob

\* process_job up to the first upsert: candle read, empty-series return, kernel,
\* empty-result return
process_job_calculate ==
    /\ consPc = "candles"
    /\ \E redisGet \in Outcome, pgRead \in Outcome, redisSet \in Outcome :
         LET c == fetch_candle_data(redisGet, pgRead, redisSet)
             k == calculate_rsi(consJob, c.data)
         IN /\ candleCache' = c.cache
            /\ IF ~c.ok THEN job_errs(NoSeries) /\ UNCHANGED lastJob
               ELSE IF c.data = 0 THEN job_returns_early /\ record_outcome("committed")
               ELSE IF ~k.ok THEN job_errs(c.data) /\ UNCHANGED lastJob
               ELSE IF k.points = <<>> THEN job_returns_early /\ record_outcome("committed")
               ELSE /\ consPc' = "insert"
                    /\ consJob' = consJob
                    /\ series' = c.data
                    /\ results' = k.points
                    /\ sent' = 0
                    /\ permits' = permits
                    /\ UNCHANGED lastJob
    /\ UNCHANGED <<prodVars, channel, lease, nCandles, calculated, ccache, now,
                   leaseFault, retryDue, aloneVars>>

\* next_batch that ignores batch_size
next_batch_whole == SubSeq(results, sent + 1, Len(results))

\* the next batch process_job hands to the gateway: batch_size points, or the
\* remaining ones
next_batch == SubSeq(results, sent + 1, Min(sent + BatchSize, Len(results)))

\* process_job: one insert_calculated_indicators_batch(batch).await? and what it
\* does to the consumer and the store
process_job_upsert ==
    /\ consPc = "insert"
    /\ \E rowErr \in SUBSET (1..Len(next_batch)), txAborts \in BOOLEAN, commitOk \in BOOLEAN :
         LET r == insert_calculated_indicators_batch(calculated, next_batch, rowErr,
                                                     txAborts, commitOk)
         IN /\ calculated' = r.store
            /\ IF r.result = "err"
               THEN /\ consPc' = "delete_failed"
                    /\ sent' = sent
               ELSE /\ sent' = sent + Len(next_batch)
                    /\ consPc' = IF sent + Len(next_batch) = Len(results)
                                 THEN "delete_ok" ELSE "insert"
    /\ UNCHANGED <<prodVars, channel, lease, candleCache, nCandles, consJob, series,
                   results, permits, ccache, now, leaseFault, retryDue, lastJob>>

\* process_job: one insert_calculated_indicators_batch(batch).await?
process_job_insert == process_job_upsert /\ UNCHANGED aloneVars

\* job_ends with the permit never given back
job_ends_keeps_permit ==
    /\ consPc' = "recv"
    /\ consJob' = NoJob
    /\ series' = NoSeries
    /\ results' = <<>>
    /\ sent' = 0
    /\ permits' = permits

\* the consumer is done with its Job and waits for the next one; `_permit` goes
\* out of scope at the end of the loop body, which gives the permit back
job_ends ==
    /\ consPc' = "recv"
    /\ consJob' = NoJob
    /\ series' = NoSeries
    /\ results' = <<>>
    /\ sent' = 0
    /\ permits' = permits + 1

\* redis.delete(job_key): the key is removed unless the call fails
redis_delete(f, r) == IF r = "ok" THEN lease \ {f} ELSE lease

\* process_job, after the last batch: remove the lease, return Ok
process_job_release ==
    /\ consPc = "delete_ok"
    /\ \E r \in Outcome : lease' = redis_delete(consJob, r)
    /\ job_ends
    /\ record_outcome("committed")
    /\ UNCHANGED <<prodVars, channel, candleCache, nCandles, calculated, ccache,
                   now, leaseFault, retryDue, aloneVars>>

\* job_consumer, Err arm of process_job: remove the lease so the Job is retried
consumer_release_failed ==
    /\ consPc = "delete_failed"
    /\ \E r \in Outcome :
         /\ lease' = redis_delete(consJob, r)
         /\ retryDue' = IF r = "ok" THEN retryDue \cup {consJob} ELSE retryDue \ {consJob}
    /\ job_ends
    /\ record_outcome("failed")
    /\ UNCHANGED <<prodVars, channel, candleCache, nCandles, calculated, ccache,
                   now, leaseFault, aloneVars>>

\* ------------------------------------------------------------------ environment
\* the loader stores one more candle of the pair
new_candle ==
    /\ nCandles < MaxCandles
    /\ nCandles' = nCandles + 1
    /\ lastJob' = [f \in Fingerprints |-> NoEnqueue]
    /\ UNCHANGED <<prodVars, channel, lease, candleCache, consVars, calculated,
                   ccache, now, leaseFault, retryDue, aloneVars>>

\* the 600 s TTL of a job key runs out
lease_expire ==
    /\ \E f \in lease : lease' = lease \ {f}
    /\ leaseFault' = TRUE
    /\ UNCHANGED <<prodVars, channel, candleCache, nCandles, consVars, calculated,
                   ccache, now, retryDue, lastJob, aloneVars>>

\* the cache_ttl_seconds TTL of the cached candle series runs out
candle_cache_expire ==
    /\ candleCache # NoSeries
    /\ candleCache' = NoSeries
    /\ UNCHANGED <<prodVars, channel, lease, nCandles, consVars, calculated,
                   ccache, now, leaseFault, retryDue, lastJob, aloneVars>>

\* time passes
tick ==
    /\ now < MaxTicks * TickMinutes
    /\ now' = now + TickMinutes
    /\ UNCHANGED <<prodVars, channel, lease, candleCache, nCandles, consVars,
                   calculated, ccache, leaseFault, retryDue, lastJob, aloneVars>>

\* ------------------------------------------------------------------ specification
NoCall == [made |-> FALSE]
NoProbe == [done |-> FALSE]

InitButProbe ==
    /\ prodPc = "enumerate"
    /\ configs = <<>>
    /\ channel = <<>>
    /\ lease = {}
    /\ candleCache = NoSeries
    /\ nCandles = 0
    /\ consPc = "recv"
    /\ consJob = NoJob
    /\ series = NoSeries
    /\ results = <<>>
    /\ sent = 0
    /\ calculated = {}
    /\ ccache = [f \in Fingerprints |-> NoRecord]
    /\ now = 0
    /\ leaseFault = FALSE
    /\ retryDue = {}
    /\ gwLast = NoCall
    /\ permits = ConcurrencyLimit
    /\ lastJob = [f \in Fingerprints |-> NoEnqueue]
    /\ cacheLog = [f \in Fingerprints |-> NoTime]

Init == InitButProbe /\ probe = NoProbe

Next ==
    \/ producer_enumerate
    \/ producer_sleep5
    \/ producer_sleep60
    \/ producer_examine
    \/ producer_send
    \/ producer_set_lease
    \/ consumer_recv
    \/ process_job_calculate
    \/ process_job_insert
    \/ process_job_release
    \/ consumer_release_failed
    \/ initialize_cache
    \/ new_candle
    \/ lease_expire
    \/ candle_cache_expire
    \/ tick

Spec == Init /\ [][Next]_vars

\* ------------------------------------------------------------------ the worker on its own
\* Worker::start without the completeness cache, which no code of the worker
\* reads or writes: the producer task, the consumer loop and their environment.
\* The consumer loop runs on the task that start() is awaited on, and every call
\* it makes returns, so it takes its next step whenever it has one.
NextWorker ==
    \/ producer_enumerate
    \/ producer_sleep5
    \/ producer_sleep60
    \/ producer_examine
    \/ producer_send
    \/ producer_set_lease
    \/ consumer_recv
    \/ process_job_calculate
    \/ process_job_insert
    \/ process_job_release
    \/ consumer_release_failed
    \/ new_candle
    \/ lease_expire
    \/ candle_cache_expire

job_consumer ==
    \/ consumer_recv
    \/ process_job_calculate
    \/ process_job_insert
    \/ process_job_release
    \/ consumer_release_failed

SpecWorker == Init /\ [][NextWorker]_vars /\ WF_vars(job_consumer)

\* ------------------------------------------------------------------ the stop command
\* stop_daemon: `kill <pid>` sends SIGTERM to the worker process. The worker
\* installs no signal handler, so the signal ends the process there and then:
\* both tasks stop where they stand and the Jobs on the channel are gone with
\* the process memory. consJob, results and sent keep what the consumer held.
\* The store and the key-value cache are other processes and keep their state.
stop_daemon ==
    /\ prodPc # "killed"
    /\ prodPc' = "killed"
    /\ consPc' = "killed"
    /\ channel' = <<>>
    /\ UNCHANGED <<configs, lease, candleCache, nCandles, consJob, series, results,
                   sent, permits, calculated, ccache, now, leaseFault, retryDue,
                   lastJob, aloneVars>>

NextStop ==
    \/ producer_enumerate
    \/ producer_sleep5
    \/ producer_sleep60
    \/ producer_examine
    \/ producer_send
    \/ producer_set_lease
    \/ consumer_recv
    \/ process_job_calculate
    \/ process_job_insert
    \/ process_job_release
    \/ consumer_release_failed
    \/ new_candle
    \/ lease_expire
    \/ candle_cache_expire
    \/ stop_daemon

SpecStop == Init /\ [][NextStop]_vars

\* ------------------------------------------------------------------ the completeness cache on its own
\* update, remove and clear called in any order for any fingerprint while time
\* passes; the record handed to update is built by from_job at the time of the
\* call, with any count and any complete flag
cache_update ==
    /\ \E f \in Fingerprints, d \in 0..MaxCandles, c \in BOOLEAN :
         /\ ccache' = update(ccache, [from_job(f) EXCEPT !.data_count = d,
                                                          !.is_complete = c])
         /\ cacheLog' = [cacheLog EXCEPT ![f] = now]
    /\ UNCHANGED <<prodVars, channel, lease, candleCache, nCandles, consVars,
                   calculated, now, leaseFault, retryDue, lastJob, gwVars, probe>>

cache_remove ==
    /\ \E f \in Fingerprints :
         /\ ccache' = remove(ccache, f)
         /\ cacheLog' = [cacheLog EXCEPT ![f] = NoTime]
    /\ UNCHANGED <<prodVars, channel, lease, candleCache, nCandles, consVars,
                   calculated, now, leaseFault, retryDue, lastJob, gwVars, probe>>

cache_clear ==
    /\ ccache' = clear
    /\ cacheLog' = [f \in Fingerprints |-> NoTime]
    /\ UNCHANGED <<prodVars, channel, lease, candleCache, nCandles, consVars,
                   calculated, now, leaseFault, retryDue, lastJob, gwVars, probe>>

cache_clock ==
    /\ now < MaxCacheSteps * CacheStepMinutes
    /\ now' = now + CacheStepMinutes
    /\ UNCHANGED <<prodVars, channel, lease, candleCache, nCandles, consVars,
                   calculated, ccache, leaseFault, retryDue, lastJob, aloneVars>>

NextCache == cache_update \/ cache_remove \/ cache_clear \/ cache_clock

SpecCache == Init /\ [][NextCache]_vars

\* ------------------------------------------------------------------ the completeness derivation on its own
\* the timestamps initialize_cache can read for one configuration, in seconds:
\* get_candle_data_range gives both candle times or neither, and a calculated
\* point is never earlier than the first candle, but it can be later than the
\* last candle read, the range being read before the calculated times
NearTimes == {1800 * k : k \in 0..MaxNearSteps}

ProbeTimes == NearTimes \cup {1800 * (FarStep - j) : j \in 0..MaxLagSteps}

ProbeInputs ==
    {[first_candle |-> NoTime, last_candle |-> NoTime, last_calc |-> c] :
        c \in ProbeTimes \cup {NoTime}}
    \cup {t \in [first_candle : NearTimes, last_candle : ProbeTimes,
                  last_calc : ProbeTimes \cup {NoTime}] :
            /\ t.first_candle <= t.last_candle
            /\ t.last_calc # NoTime => t.first_candle <= t.last_calc}

InitRebuild ==
    /\ InitButProbe
    /\ \E t \in ProbeInputs : probe = [done |-> FALSE, in |-> t]

\* initialize_cache for one configuration with the timestamps of the probe
rebuild_probe ==
    /\ ~probe.done
    /\ probe' = [done |-> TRUE, in |-> probe.in,
                 info |-> derive_coverage(probe.in.first_candle, probe.in.last_candle,
                                          probe.in.last_calc)]
    /\ UNCHANGED <<prodVars, channel, lease, candleCache, nCandles, consVars,
                   calculated, ccache, now, leaseFault, retryDue, lastJob, gwVars,
                   cacheLog>>

NextRebuild == rebuild_probe

SpecRebuild == InitRebuild /\ [][NextRebuild]_vars

\* ------------------------------------------------------------------ the gateway on its own
\* insert_calculated_indicators_batch called with arbitrary batches of points of
\* one fingerprint, each call with every outcome its statements can have
GatewayPoints == [fp : {MaxPeriod}, time : 1..MaxCandles, value : 1..MaxValue]

Batches == UNION {[1..n -> GatewayPoints] : n \in 0..MaxBatchLen}

\* one call of the gateway; again says that it repeats the batch of the call
\* before it, and that in that call every row was executed and committed
gateway_call(batch, again) ==
    \E rowErr \in SUBSET (1..Len(batch)), txAborts \in BOOLEAN, commitOk \in BOOLEAN :
      LET r == insert_calculated_indicators_batch(calculated, batch, rowErr,
                                                  txAborts, commitOk)
      IN /\ calculated' = r.store
         /\ gwLast' = [made |-> TRUE, batch |-> batch, before |-> calculated,
                       result |-> r.result, rowErr |-> rowErr,
                       rolledBack |-> (~commitOk \/ (rowErr # {} /\ txAborts)),
                       again |-> again]

gateway_insert ==
    /\ \E batch \in Batches : gateway_call(batch, FALSE)
    /\ UNCHANGED <<prodVars, channel, lease, candleCache, nCandles, consVars, ccache,
                   now, leaseFault, retryDue, lastJob, cacheLog, probe>>

gateway_insert_again ==
    /\ gwLast.made
    /\ gateway_call(gwLast.batch, gwLast.rowErr = {} /\ ~gwLast.rolledBack)
    /\ UNCHANGED <<prodVars, channel, lease, candleCache, nCandles, consVars, ccache,
                   now, leaseFault, retryDue, lastJob, cacheLog, probe>>

NextStore == gateway_insert \/ gateway_insert_again

SpecStore == Init /\ [][NextStore]_vars

\* ------------------------------------------------------------------ claims
\* the Jobs of fingerprint f that are on the channel or being processed
InFlight(f) ==
    Cardinality({i \in 1..Len(channel) : channel[i] = f})
    + (IF consJob = f /\ consPc \in {"candles", "insert"} THEN 1 ELSE 0)

ProducerNext ==
    \/ producer_enumerate
    \/ producer_sleep5
    \/ producer_sleep60
    \/ producer_examine
    \/ producer_send
    \/ producer_set_lease

ConsumerNext ==
    \/ consumer_recv
    \/ process_job_calculate
    \/ process_job_insert
    \/ process_job_release
    \/ consumer_release_failed

C2_Original ==
    [][(consPc # "recv" /\ consPc' = "recv")
         => consPc \in {"delete_ok", "delete_failed"}]_vars

\* C3: when a Job reaches committed (its last batch returned Ok), every point the
\* kernel produced for it is a row of the store.
C3_Original ==
    [][(consPc = "insert" /\ consPc' = "delete_ok")
         => \A i \in 1..Len(results) : results[i] \in calculated']_vars

\* a gateway call in which every row was executed and the transaction committed
GwClean == gwLast.rowErr = {} /\ ~gwLast.rolledBack

\* the rows of the last gateway call that were executed and committed
GwApplied ==
    IF gwLast.rolledBack THEN {}
    ELSE {i \in 1..Len(gwLast.batch) : i \notin gwLast.rowErr}

\* C4: a batch upserted a second time, right after it was upserted, leaves the
\* store as the first upsert left it (both upserts executing every row).
C4_UpsertTwice ==
    (gwLast.made /\ gwLast.again /\ GwClean) => calculated = gwLast.before

\* a batch that rewrites one key with two values was upserted twice
C4_Witness ==
    /\ gwLast.made /\ gwLast.again /\ GwClean
    /\ Len(gwLast.batch) = 2
    /\ Key(gwLast.batch[1]) = Key(gwLast.batch[2])
    /\ gwLast.batch[1].value # gwLast.batch[2].value

\* C5: the store never holds two rows with one key, and after a gateway call
\* every key written by a committed row of the call carries the value of the
\* last such row, every other key being as it was before the call.
C5_LastWriteWins ==
    /\ \A x \in calculated, y \in calculated : Key(x) = Key(y) => x = y
    /\ gwLast.made =>
         \A p \in GatewayPoints :
           LET writers == {i \in GwApplied : Key(gwLast.batch[i]) = Key(p)}
               last == CHOOSE i \in writers : \A j \in writers : j <= i
           IN IF writers = {}
              THEN (p \in calculated) = (p \in gwLast.before)
              ELSE (p \in calculated) = (p.value = gwLast.batch[last].value)

\* a committed row replaced the different value stored under its key
C5_Witness ==
    /\ gwLast.made
    /\ \E i \in GwApplied : \E x \in gwLast.before :
         /\ Key(x) = Key(gwLast.batch[i])
         /\ x.value # gwLast.batch[i].value

\* C6: when the gateway returns, the store holds the whole batch or is as it was
\* before the call, and a call that returned an error changed nothing.
C6_Original ==
    gwLast.made =>
      /\ \/ calculated = gwLast.before
         \/ calculated = exec_rows(gwLast.before, gwLast.batch, {}, 1)
      /\ gwLast.result = "err" => calculated = gwLast.before

\* C7: a sweep decides to enqueue a Job only for a configuration that has no
\* fresh completeness record with complete = true.
C7_Original ==
    [][(prodPc = "examine" /\ prodPc' = "send")
         => ~is_job_complete(Head(configs))]_vars

\* C8, in the case most favourable to it (the consumer's delete of the lease key
\* succeeded): when a sweep examines a configuration whose last Job ended
\* failed, the lease key of its fingerprint is absent, so that the sweep
\* enqueues it again.
C8_Original ==
    [][(prodPc = "examine" /\ Head(configs) \in retryDue /\ Head(configs) \notin retryDue')
         => Head(configs) \notin lease]_vars

\* C9: neither loop ever leaves its cycle: the producer and the consumer each
\* have a next step unless waiting on the channel, the sleep after a failed
\* enumeration leads back to the enumeration, and the release of a failed
\* Job leads back to recv.
C9_LoopsKeepRunning ==
    /\ prodPc \in {"enumerate", "sleep5", "examine", "send", "set_lease", "sleep60"}
    /\ consPc \in {"recv", "candles", "insert", "delete_ok", "delete_failed"}
    /\ (prodPc = "send" /\ Len(channel) >= ChannelCapacity) \/ ENABLED ProducerNext
    /\ (consPc = "recv" /\ channel = <<>>) \/ ENABLED ConsumerNext
    /\ prodPc = "sleep5" => ENABLED (producer_sleep5 /\ prodPc' = "enumerate")
    /\ consPc = "delete_failed" => ENABLED (consumer_release_failed /\ consPc' = "recv")

\* the producer sleeps after a failed enumeration while the consumer, a Job
\* having failed before, processes the next one
C9_Witness ==
    /\ prodPc = "sleep5"
    /\ retryDue # {}
    /\ consPc = "candles"

\* C10: a Job whose kernel rejects the series (too short, or a period of 0) is
\* treated as committed, not as failed.
C10_Original ==
    [][(consPc = "candles" /\ series' # NoSeries /\ series' > 0
          /\ ~calculate_rsi(consJob, series').ok)
         => consPc' # "delete_failed"]_vars

\* C11, with every lease call succeeding and no lease key expired: a sweep sends
\* no Job for a configuration for which the sweep before it sent one, when that
\* Job is still in flight or has committed and no candle has arrived since.
C11_Original ==
    [][(prodPc = "send" /\ prodPc' = "set_lease" /\ ~leaseFault)
         => lastJob[Head(configs)] # "previous"]_vars

\* C12: when the consumer is done with a Job that committed, the completeness
\* cache holds a record of the Job's fingerprint that a get returns and whose
\* updated-at is not earlier than the commit.
C12_Original ==
    [][(consPc = "delete_ok" /\ consPc' = "recv")
         => /\ ccache'[consJob].present
            /\ ccache'[consJob].updated_at >= now
            /\ cache_get(consJob)'.present]_vars

\* C13: the channel never holds more than its capacity; the producer leaves its
\* send only by putting the Job on the channel, so a full channel makes it
\* wait; the channel changes only by that send and by the consumer receiving
\* its head; every Job on the channel is eventually received; and every Job
\* the consumer processes eventually ends (committed or failed), the consumer
\* going back to recv.
C13_NoJobDropped ==
    /\ [](Len(channel) <= ChannelCapacity)
    /\ [][(prodPc = "send" /\ prodPc' # "send")
            => channel' = Append(channel, Head(configs))]_vars
    /\ [][channel' # channel
            => \/ prodPc = "send" /\ channel' = Append(channel, Head(configs))
               \/ /\ channel # <<>>
                  /\ channel' = Tail(channel)
                  /\ consJob' = Head(channel)
                  /\ consPc' = "candles"]_vars
    /\ \A f \in Fingerprints :
         (channel # <<>> /\ Head(channel) = f) ~> (consJob = f /\ consPc = "candles")
    /\ (consPc \in {"candles", "insert"}) ~> (consPc = "recv")

\* the producer waits at its send on a full channel while the consumer is at an
\* upsert of another Job
C13_Witness ==
    /\ prodPc = "send"
    /\ Len(channel) = ChannelCapacity
    /\ consPc = "insert"

\* the Jobs in the processing state: received, permit acquired, not yet ended
Processing == IF consJob # NoJob THEN 1 ELSE 0

\* C14: the Jobs in the processing state are never more than the concurrency
\* limit, and each of them holds exactly one permit of the semaphore: the
\* permit is taken when the Job leaves the channel and given back when the Job
\* ends.
C14_PermitsBoundProcessing ==
    /\ Processing <= ConcurrencyLimit
    /\ permits >= 0
    /\ permits = ConcurrencyLimit - Processing
    /\ consPc = "recv" <=> consJob = NoJob

\* a Job is at its upsert, holding a permit, after an earlier Job has ended and
\* given its permit back
C14_Witness ==
    /\ consPc = "insert"
    /\ permits = ConcurrencyLimit - 1
    /\ calculated # {}

\* C15: with a concurrency limit of at least 2, a Job waiting on the channel
\* while a permit is free can be received: one of the N consumers is there to
\* take it even while another Job is being processed.
C15_Original ==
    (ConcurrencyLimit >= 2 /\ channel # <<>> /\ permits > 0) => ENABLED consumer_recv

\* C16: the worker process ends on the stop command only when no Job is in the
\* processing state: a Job being processed when the signal arrives first runs
\* to committed or failed.
C16_Original == consPc = "killed" => consJob = NoJob

\* C17: after any updates, removes and clears and any passage of time, get
\* returns a record for a fingerprint exactly when the cache was updated for
\* it since it was last removed or cleared and less than the TTL has passed
\* since that update; the record is then the one of that update.
C17_GetFreshOnly ==
    \A f \in Fingerprints :
      /\ cache_get(f).present
           <=> (cacheLog[f] # NoTime /\ now - cacheLog[f] < ttl_minutes)
      /\ cache_get(f).present
           => /\ cache_get(f) = ccache[f]
              /\ cache_get(f).fp = f
              /\ cache_get(f).updated_at = cacheLog[f]

\* one fingerprint has a record older than the TTL, reported absent, the other
\* a fresh one, returned
C17_Witness ==
    /\ ccache[0].present /\ now - ccache[0].updated_at > ttl_minutes
    /\ ~cache_get(0).present
    /\ cache_get(MaxPeriod).present
    /\ MaxPeriod # 0

\* the probe was derived from three defined timestamps
ProbeDefined ==
    /\ probe.done
    /\ probe.in.first_candle # NoTime
    /\ probe.in.last_candle # NoTime
    /\ probe.in.last_calc # NoTime

ProbeCandleSpan == probe.in.last_candle - probe.in.first_candle

ProbeCalcSpan == probe.in.last_calc - probe.in.first_candle

C19_Original ==
    ProbeDefined =>
      (probe.info.is_complete
         <=> /\ probe.in.last_candle - probe.in.last_calc <= 24 * 3600
             /\ probe.info.coverage_percent >= 95)

\* C20: the series a Job is computed over (candles 1..series', in open-time
\* order) holds every candle the store has for the pair when the Job's
\* processing starts.
C20_Original ==
    [][(consPc = "candles" /\ series' # NoSeries) => series' = nCandles]_vars

\* ------------------------------------------------------------------ indicator kernels
\* the series lengths and configured periods the kernels are exercised with: every
\* length 1..MaxSeries (process_job returns before the kernel call when the series
\* is empty) and one series longer than every default period
MaxKernelPeriod == 3
MaxSeries == 5
LongSeries == 16

\* the variables a kernel call leaves alone
workerVars == <<prodVars, channel, lease, candleCache, nCandles, consVars, calculated,
                ccache, now, leaseFault, retryDue, lastJob, gwVars, cacheLog>>

\* the outcome of a kernel call: Ok with the candle indices (0-based) of the
\* emitted points in emission order, an Err, or a panic of the task
Emitted(ix) == [status |-> "ok", indices |-> ix]

Failed(why) == [status |-> why, indices |-> <<>>]

\* the candle indices lo..n-1 in ascending order
IndexRange(lo, n) == [i \in 1..(n - lo) |-> lo + i - 1]

\* params["name"].as_u64().unwrap_or(default) as usize: the config's value when
\* the name is present with a non-negative integer, else the default
as_u64_or(params, name, default) ==
    IF name \in DOMAIN params /\ params[name] >= 0 THEN params[name] ELSE default

\* RelativeStrengthIndex::next returns a number, not NaN, for the candle of index
\* i: self.index, the number of price changes seen, has reached the period
rsi_is_number(period, i) == i >= period

\* OscillatorCalculator::calculate_rsi with any period
calculate_rsi_with(period, n) ==
    IF n < period + 1 THEN Failed("not_enough_data")
    ELSE IF period = 0 THEN Failed("invalid_period")
    ELSE Emitted(SelectSeq(IndexRange(0, n),
                           LAMBDA i : i >= period /\ rsi_is_number(period, i)))

\* OscillatorCalculator::calculate_williams_r: no check of the period; with
\* period 0 the loop bound `period - 1` overflows usize, which panics in a build
\* with overflow checks and wraps to usize::MAX (an empty range) without them
calculate_williams_r(period, n, build) ==
    IF n < period + 1 THEN Failed("not_enough_data")
    ELSE IF period = 0
         THEN IF build = "debug" THEN Failed("panic") ELSE Emitted(<<>>)
    ELSE Emitted(IndexRange(period - 1, n))

\* calculate_momentum that emits its first point twice
calculate_momentum_repeats(period, n) ==
    IF n < period + 1 THEN Failed("not_enough_data")
    ELSE Emitted(<<period>> \o IndexRange(period, n))

\* OscillatorCalculator::calculate_momentum: no check of the period; one point
\* close[i] - close[i - period] for every index period..n-1
calculate_momentum(period, n) ==
    IF n < period + 1 THEN Failed("not_enough_data")
    ELSE Emitted(IndexRange(period, n))

\* RateOfChange::next returns a number for the candle of index i: the window
\* holds more than period prices (the closes of a candle series are positive,
\* so the old price is never 0)
roc_is_number(period, i) == i + 1 > period

\* OscillatorCalculator::calculate_roc
calculate_roc(period, n) ==
    IF n < period + 1 THEN Failed("not_enough_data")
    ELSE IF period = 0 THEN Failed("invalid_period")
    ELSE Emitted(SelectSeq(IndexRange(0, n),
                           LAMBDA i : i >= period /\ roc_is_number(period, i)))

\* VolatilityCalculator::calculate_true_range: one value for every candle but the
\* first
calculate_true_range(n) ==
    IF n < 2 THEN Failed("not_enough_data") ELSE Emitted(IndexRange(1, n))

\* AverageTrueRange::next returns a number for the k-th value it is given
\* (k = 1, 2, ...): the average is first set by the period-th value
atr_is_number(period, k) == k >= period

\* VolatilityCalculator::calculate_atr: the true range of position j (0-based,
\* candle j + 1) is given to the average when j >= period - 1, as value number
\* j - (period - 1) + 1
calculate_atr(period, n) ==
    IF n < period + 1 THEN Failed("not_enough_data")
    ELSE IF period = 0 THEN Failed("invalid_period")
    ELSE LET tr == calculate_true_range(n)
         IN IF tr.status # "ok" THEN tr
            ELSE Emitted(SelectSeq(tr.indices,
                           LAMBDA c : /\ c - 1 >= period - 1
                                      /\ atr_is_number(period, (c - 1) - (period - 1) + 1)))

\* an f64 as far as the kernels' NaN tests see it: NaN, or a number. Arithmetic
\* on numbers gives a number (the closes of a series are positive and finite),
\* and NaN in either operand gives NaN
NaN == "nan"

Number == "number"

fop(a, b) == IF a = NaN \/ b = NaN THEN NaN ELSE Number

\* values.iter().sum::<f64>() / period
fsum(values) == IF \E k \in 1..Len(values) : values[k] = NaN THEN NaN ELSE Number

\* ExponentialMovingAverage::new; `value` is "none" for Option::None
ema_new(period) == [period |-> period, value |-> "none", index |-> 0, sum |-> Number]

\* ExponentialMovingAverage::next: NaN for the first period - 1 inputs, then the
\* average of the first period inputs, then input * alpha + value * (1 - alpha)
ema_next(st, input) ==
    IF st.value = "none"
    THEN IF st.index < st.period - 1
         THEN [st |-> [st EXCEPT !.sum = fop(@, input), !.index = @ + 1], out |-> NaN]
         ELSE [st |-> [st EXCEPT !.sum = fop(@, input), !.value = fop(st.sum, input)],
               out |-> fop(st.sum, input)]
    ELSE [st |-> [st EXCEPT !.value = fop(input, @)], out |-> fop(input, st.value)]

\* `for _ in 0..times { ema.next(input); }`
RECURSIVE ema_feed(_, _, _)
ema_feed(st, input, times) ==
    IF times = 0 THEN st ELSE ema_feed(ema_next(st, input).st, input, times - 1)

\* MovingAverageConvergenceDivergence::new, after its checks of the periods
macd_new(fast_period, slow_period, signal_period) ==
    [fast_ema |-> ema_new(fast_period), slow_ema |-> ema_new(slow_period),
     signal_ema |-> ema_new(signal_period), slow_period |-> slow_period,
     signal_period |-> signal_period, macd_values |-> <<>>, index |-> 0]

\* MovingAverageConvergenceDivergence::next (and PercentagePriceOscillator::next,
\* whose line (fast - slow) / slow * 100 is NaN exactly when this one is: a NaN
\* slow average is `!= 0.0`): the line values are collected up to index
\* slow_period + signal_period - 1, where the signal average is fed
\* signal_period times with the sum of all of them over signal_period
macd_next(st, input) ==
    LET fast == ema_next(st.fast_ema, input)
        slow == ema_next(st.slow_ema, input)
        macd == fop(fast.out, slow.out)
        first == st.slow_period + st.signal_period - 1
        values == IF st.index <= first THEN Append(st.macd_values, macd)
                  ELSE st.macd_values
        seeded == IF st.index = first
                  THEN ema_feed(st.signal_ema, fsum(values), st.signal_period)
                  ELSE st.signal_ema
        signal == IF st.index >= first THEN ema_next(seeded, macd)
                  ELSE [st |-> seeded, out |-> NaN]
    IN [st |-> [st EXCEPT !.fast_ema = fast.st, !.slow_ema = slow.st,
                          !.signal_ema = signal.st, !.macd_values = values,
                          !.index = @ + 1],
        out |-> [macd |-> macd, signal |-> signal.out]]

\* the indicator and its output after the closes of indices 0..i
RECURSIVE macd_after(_, _)
macd_after(st0, i) ==
    macd_next(IF i = 0 THEN st0 ELSE macd_after(st0, i - 1).st, Number)

\* OscillatorCalculator::calculate_macd and calculate_ppo: one point for every
\* index i >= slow_period whose line and signal are numbers
calculate_macd(fast_period, slow_period, signal_period, n) ==
    IF n < slow_period + signal_period THEN Failed("not_enough_data")
    ELSE IF fast_period >= slow_period THEN Failed("invalid_period")
    ELSE IF fast_period = 0 \/ slow_period = 0 \/ signal_period = 0
         THEN Failed("invalid_period")
    ELSE LET st0 == macd_new(fast_period, slow_period, signal_period)
         IN Emitted(SelectSeq(IndexRange(0, n),
                LAMBDA i : /\ i >= slow_period
                           /\ macd_after(st0, i).out.macd # NaN
                           /\ macd_after(st0, i).out.signal # NaN))

\* Worker::calculate_oscillator: the kernel is chosen by name and its period is
\* read from the parameters with the default of the match arm
calculate_oscillator(job, n, build) ==
    CASE job.name = "RSI" -> calculate_rsi_with(as_u64_or(job.params, "period", 14), n)
      [] job.name = "WILLR" ->
            calculate_williams_r(as_u64_or(job.params, "period", 14), n, build)
      [] job.name = "MOM" -> calculate_momentum(as_u64_or(job.params, "period", 10), n)
      [] job.name = "ROC" -> calculate_roc(as_u64_or(job.params, "period", 10), n)
      [] job.name \in {"MACD", "PPO"} ->
            calculate_macd(as_u64_or(job.params, "fast_period", 12),
                           as_u64_or(job.params, "slow_period", 26),
                           as_u64_or(job.params, "signal_period", 9), n)
      [] OTHER -> Failed("unsupported")

\* Worker::calculate_volatility
calculate_volatility(job, n) ==
    CASE job.name = "ATR" -> calculate_atr(as_u64_or(job.params, "period", 14), n)
      [] OTHER -> Failed("unsupported")

\* Worker::calculate_indicator: dispatch on the Job's kind
calculate_indicator(job, n, build) ==
    CASE job.kind = "oscillator" -> calculate_oscillator(job, n, build)
      [] job.kind = "volatility" -> calculate_volatility(job, n)
      [] OTHER -> Failed("unsupported")

\* ------------------------------------------------------------------ the kernels on their own
\* one kernel call for a Job of a kernel that takes a period, the period absent
\* from the config or any integer -1..MaxKernelPeriod, over a series of n candles,
\* in either build
PeriodKernels ==
    {[kind |-> "oscillator", name |-> nm] : nm \in {"RSI", "WILLR", "MOM", "ROC"}}
    \cup {[kind |-> "volatility", name |-> "ATR"]}

PeriodParams == {<<>>} \cup {[period |-> v] : v \in (-1)..MaxKernelPeriod}

SeriesLengths == (1..MaxSeries) \cup {LongSeries}

Builds == {"debug", "release"}

KernelInputs ==
    {[job |-> [kind |-> k.kind, name |-> k.name, params |-> p], n |-> n, build |-> b] :
        k \in PeriodKernels, p \in PeriodParams, n \in SeriesLengths, b \in Builds}

InitKernel ==
    /\ InitButProbe
    /\ \E t \in KernelInputs : probe = [done |-> FALSE, in |-> t]

\* process_job: self.calculate_indicator(job, &candle_data)
kernel_call ==
    /\ ~probe.done
    /\ probe' = [done |-> TRUE, in |-> probe.in, by |-> "worker",
                 out |-> calculate_indicator(probe.in.job, probe.in.n, probe.in.build)]
    /\ UNCHANGED workerVars

\* ffi::TA_RSI, a function of the TA-Lib C library: a return code, and on
\* TA_SUCCESS the first index that has a value and the number of values, which
\* the library keeps within startIdx..endIdx = 0..n-1
TA_SUCCESS == 0

TaOutcomes(n) ==
    {t \in [ret : {TA_SUCCESS, 1}, beg : 0..n, nb : 0..n] : t.beg + t.nb <= n}

\* talib_bindings OscillatorIndicators::calculate_rsi: the points out_beg_idx + i
\* for i in 0..out_nb_element
talib_calculate_rsi(n, ta) ==
    IF n = 0 THEN Emitted(<<>>)
    ELSE IF ta.ret # TA_SUCCESS THEN Failed("ta_error")
    ELSE Emitted([i \in 1..ta.nb |-> ta.beg + i - 1])

\* IndicatorCalculator::calculate_indicator: the points of the TA-Lib function,
\* each at the open time of its index, or of the last candle when the index is
\* past the series
talib_calculate_indicator(n, ta) ==
    IF n = 0 THEN Failed("no_data")
    ELSE LET r == talib_calculate_rsi(n, ta)
         IN IF r.status # "ok" THEN r
            ELSE Emitted([k \in DOMAIN r.indices |->
                            IF r.indices[k] < n THEN r.indices[k] ELSE n - 1])

\* IndicatorCalculator::calculate_indicator(candle_data, "RSI", parameters)
talib_call ==
    /\ ~probe.done
    /\ probe.in.job.name = "RSI"
    /\ \E ta \in TaOutcomes(probe.in.n) :
         probe' = [done |-> TRUE, in |-> probe.in, by |-> "talib",
                   out |-> talib_calculate_indicator(probe.in.n, ta)]
    /\ UNCHANGED workerVars

NextKernel == kernel_call \/ talib_call

SpecKernel == InitKernel /\ [][NextKernel]_vars

\* the period the config of the probed Job gives, when it gives one
ConfiguredPeriod == probe.in.job.params["period"]

HasPeriod == "period" \in DOMAIN probe.in.job.params

\* C21: a kernel call of the worker for a config whose period is 0 or negative returns the
\* invalid-parameter error: it neither computes with another period, nor
\* panics, nor returns another result.
C21_Original ==
    (probe.done /\ probe.by = "worker" /\ HasPeriod /\ ConfiguredPeriod <= 0)
        => probe.out.status = "invalid_period"

MaxObvLen == 5
MaxCloseStep == 2

RECURSIVE obv_at(_, _, _)

\* obv_at that also adds the volume of a candle whose close is unchanged
obv_at_counts_ties(close, volume, i) ==
    IF i = 0 THEN 0
    ELSE LET obv == obv_at(close, volume, i - 1)
         IN IF close[i + 1] >= close[i] THEN obv + volume[i + 1]
            ELSE obv - volume[i + 1]

\* VolumeCalculator::calculate_obv: the value of `obv` after the loop iteration
\* of candle index i (the candle of index i is element i + 1 of the sequences),
\* 0 before the loop
obv_at(close, volume, i) ==
    IF i = 0 THEN 0
    ELSE LET obv == obv_at(close, volume, i - 1)
         IN IF close[i + 1] > close[i] THEN obv + volume[i + 1]
            ELSE IF close[i + 1] < close[i] THEN obv - volume[i + 1]
            ELSE obv

\* VolumeCalculator::calculate_obv: an error for fewer than 2 candles, else one
\* point (index, obv) for every index 1..len-1
calculate_obv(close, volume) ==
    IF Len(close) < 2 THEN [status |-> "not_enough_data", points |-> <<>>]
    ELSE [status |-> "ok",
          points |-> [i \in 1..(Len(close) - 1) |->
                        [index |-> i, value |-> obv_at(close, volume, i)]]]

ObvInputs ==
    {[close |-> c, volume |-> v] :
        c \in UNION {[1..n -> 10..(10 + MaxCloseStep)] : n \in 1..MaxObvLen},
        v \in UNION {{[i \in 1..n |-> 100 * i],
                      [i \in 1..n |-> 100 * (n + 1 - i)]} : n \in 1..MaxObvLen}}

InitObv ==
    /\ InitButProbe
    /\ \E t \in {u \in ObvInputs : Len(u.close) = Len(u.volume)} :
         probe = [done |-> FALSE, in |-> t]

\* Worker::calculate_volume for an OBV Job
obv_call ==
    /\ ~probe.done
    /\ probe' = [done |-> TRUE, in |-> probe.in,
                 out |-> calculate_obv(probe.in.close, probe.in.volume)]
    /\ UNCHANGED workerVars

NextObv == obv_call

SpecObv == InitObv /\ [][NextObv]_vars

\* the signed volume of candle index j: +volume when the close rose, -volume when
\* it fell, 0 when it is unchanged
SignedVolume(j) ==
    IF probe.in.close[j + 1] > probe.in.close[j] THEN probe.in.volume[j + 1]
    ELSE IF probe.in.close[j + 1] < probe.in.close[j] THEN -probe.in.volume[j + 1]
    ELSE 0

RECURSIVE SignedVolumeSum(_)
SignedVolumeSum(i) == IF i = 0 THEN 0 ELSE SignedVolumeSum(i - 1) + SignedVolume(i)

\* C23: OBV emits exactly one point for every index 1..N-1 and none for index 0,
\* the point of index i holding the sum of the signed volumes of indices 1..i;
\* for closes 10, 11, 10, 10, 12 and volumes 100..500 the values are 200, -100,
\* -100, 400.
C23_ObvRunningSum ==
    probe.done =>
      /\ Len(probe.out.points) = Len(probe.in.close) - 1
      /\ \A k \in 1..Len(probe.out.points) :
            /\ probe.out.points[k].index = k
            /\ probe.out.points[k].value = SignedVolumeSum(k)
      /\ (/\ probe.in.close = <<10, 11, 10, 10, 12>>
          /\ probe.in.volume = <<100, 200, 300, 400, 500>>)
            => [k \in 1..4 |-> probe.out.points[k].value] = <<200, -100, -100, 400>>

\* OBV was computed over the series of the example
C23_Witness ==
    /\ probe.done
    /\ probe.in.close = <<10, 11, 10, 10, 12>>
    /\ probe.in.volume = <<100, 200, 300, 400, 500>>
    /\ probe.out.status = "ok"
    /\ Len(probe.out.points) = 4

\* ------------------------------------------------------------------ candlestick patterns
\* prices of the candles the pattern kernel is exercised with: 1..MaxPrice
MaxPrice == 4

\* patterns/utils.rs
is_bullish(open, close) == close > open

upper_shadow(high, open, close) == IF is_bullish(open, close) THEN high - close ELSE high - open

lower_shadow(low, open, close) == IF is_bullish(open, close) THEN open - low ELSE close - low

Abs(x) == IF x < 0 THEN -x ELSE x

NoVerdict == [present |-> FALSE]

\* single_candle::check_hammer at an index >= 3, over whole-number prices: c is
\* the candle of the index, prev the closes of the three candles before it,
\* oldest first. The ratios to the range are compared as cross products, and
\* the strength 0.7 + (lower_shadow / range - 0.66) * 0.9 is the exact fraction
\* num / den with den = 10000 * range (no ratio of prices 1..MaxPrice is within a
\* rounding error of a threshold, so the f64 comparisons agree)
check_hammer(prev, c) ==
    LET body_size == Abs(c.open - c.close)
        range == c.high - c.low
        has_downtrend == prev[1] > prev[2] /\ prev[2] > prev[3]
        upper == upper_shadow(c.high, c.open, c.close)
        lower == lower_shadow(c.low, c.open, c.close)
    IN IF range = 0 THEN NoVerdict
       ELSE IF /\ 100 * body_size < 33 * range
               /\ 100 * lower > 66 * range
               /\ 10 * upper < range
               /\ has_downtrend
            THEN [present |-> TRUE, type |-> "bullish",
                  num |-> 7000 * range + 9 * (1000 * lower - 660 * range),
                  den |-> 10000 * range]
       ELSE NoVerdict

Prices == 1..MaxPrice

\* candles as an exchange reports them: low <= open, close <= high
Candles ==
    {c \in [open : Prices, high : Prices, low : Prices, close : Prices] :
        /\ c.low <= c.open /\ c.low <= c.close
        /\ c.high >= c.open /\ c.high >= c.close}

InitPattern ==
    /\ InitButProbe
    /\ \E c \in Candles, prev \in [1..3 -> Prices] :
         probe = [done |-> FALSE, in |-> [prev |-> prev, candle |-> c]]

\* PatternRecognizer::calculate_all_patterns: the hammer check of one index
pattern_call ==
    /\ ~probe.done
    /\ probe' = [done |-> TRUE, in |-> probe.in,
                 hammer |-> check_hammer(probe.in.prev, probe.in.candle)]
    /\ UNCHANGED workerVars

NextPattern == pattern_call

SpecPattern == InitPattern /\ [][NextPattern]_vars

\* C24: the strength of every emitted pattern verdict is greater than 0 and at
\* most 1.
C24_Original ==
    (probe.done /\ probe.hammer.present)
        => /\ probe.hammer.num > 0
           /\ probe.hammer.num <= probe.hammer.den

\* ------------------------------------------------------------------ the batches of one Job
\* a Job right after its kernel call, over series of 2..MaxBatchSeries candles:
\* the consumer holds the points and has sent none
MaxBatchSeries == 7

InitBatch ==
    /\ prodPc = "enumerate"
    /\ configs = <<>>
    /\ channel = <<>>
    /\ \E f \in Fingerprints \ {0}, n \in 2..MaxBatchSeries :
         /\ calculate_rsi(f, n).ok
         /\ lease = {f}
         /\ candleCache = n
         /\ nCandles = n
         /\ consPc = "insert"
         /\ consJob = f
         /\ series = n
         /\ results = calculate_rsi(f, n).points
         /\ lastJob = [g \in Fingerprints |-> IF g = f THEN "current" ELSE NoEnqueue]
    /\ sent = 0
    /\ calculated = {}
    /\ ccache = [f \in Fingerprints |-> NoRecord]
    /\ now = 0
    /\ leaseFault = FALSE
    /\ retryDue = {}
    /\ gwLast = NoCall
    /\ permits = ConcurrencyLimit - 1
    /\ cacheLog = [f \in Fingerprints |-> NoTime]
    /\ probe = [batches |-> <<>>]

\* process_job_insert, with the batch handed to the gateway recorded
batch_insert ==
    /\ process_job_upsert
    /\ probe' = [batches |-> Append(probe.batches, next_batch)]
    /\ UNCHANGED <<gwVars, cacheLog>>

NextBatch == batch_insert

SpecBatch == InitBatch /\ [][NextBatch]_vars

\* the batches handed to the gateway so far, one after the other
RECURSIVE Concat(_)
Concat(bs) == IF bs = <<>> THEN <<>> ELSE Head(bs) \o Concat(Tail(bs))

Issued == Concat(probe.batches)

\* every batch holds 1..batch_size points and only the last holds fewer than
\* batch_size
BatchesWellSized ==
    \A k \in 1..Len(probe.batches) :
       /\ Len(probe.batches[k]) >= 1
       /\ Len(probe.batches[k]) <= BatchSize
       /\ k < Len(probe.batches) => Len(probe.batches[k]) = BatchSize

PointsAscend == \A i, j \in 1..Len(results) : i < j => results[i].time < results[j].time

\* C25: once the consumer has left the upsert loop of a Job, the batches it
\* handed to the gateway, in call order, make up the kernel's points P in
\* time-ascending order, each batch of at most batch_size points and only the
\* last one shorter: no point omitted, none sent twice.
C25_Original ==
    consPc # "insert" => (Issued = results /\ BatchesWellSized /\ PointsAscend)

\* C25 amended: the batches handed over so far are always the first chunks of P
\* (in order, each of batch_size points but possibly the last), and they make up
\* the whole of P when the loop ends without an upsert error; an upsert error
\* ends the loop with the later points of P never handed over.
C25_Amended ==
    /\ BatchesWellSized
    /\ PointsAscend
    /\ Len(Issued) <= Len(results)
    /\ Issued = SubSeq(results, 1, Len(Issued))
    /\ consPc = "insert" => Len(Issued) = sent
    /\ consPc = "delete_ok" => Issued = results
    /\ consPc = "delete_failed" => Len(probe.batches) >= 1

\* a Job handed over all its points in several batches, the last one shorter
C25_Witness ==
    /\ consPc = "delete_ok"
    /\ Len(probe.batches) >= 2
    /\ Len(probe.batches[Len(probe.batches)]) < BatchSize
    /\ Issued = results

\* C26: whenever the lease key of a fingerprint exists, a Job of that fingerprint
\* is on the channel or with the consumer (received and not yet ended).
C26_Original ==
    \A f \in lease :
       \/ \E i \in 1..Len(channel) : channel[i] = f
       \/ consJob = f

\* C27: for RSI, MOM, ROC and ATR with a configured period p >= 1 over a series
\* of n >= p + 1 candles, the worker's kernel call emits its first point at
\* index p, and exactly one point when n = p + 1.
C27_Original ==
    (/\ probe.done
     /\ probe.by = "worker"
     /\ probe.in.job.name \in {"RSI", "MOM", "ROC", "ATR"}
     /\ HasPeriod
     /\ ConfiguredPeriod >= 1
     /\ probe.in.n >= ConfiguredPeriod + 1)
        => /\ probe.out.status = "ok"
           /\ Len(probe.out.indices) >= 1
           /\ probe.out.indices[1] = ConfiguredPeriod
           /\ probe.in.n = ConfiguredPeriod + 1 => Len(probe.out.indices) = 1

\* ------------------------------------------------------------------ MACD and PPO on their own
\* one kernel call for a MACD or PPO Job with each period in 0..MaxMacdPeriod
\* over a series of 1..MaxMacdSeries candles
MaxMacdPeriod == 3
MaxMacdSeries == 7

MacdInputs ==
    {[job |-> [kind |-> "oscillator", name |-> nm, params |-> p], n |-> n, build |-> b] :
        nm \in {"MACD", "PPO"},
        p \in [{"fast_period", "slow_period", "signal_period"} -> 0..MaxMacdPeriod],
        n \in 1..MaxMacdSeries, b \in Builds}

InitMacd ==
    /\ InitButProbe
    /\ \E t \in MacdInputs : probe = [done |-> FALSE, in |-> t]

NextMacd == kernel_call

SpecMacd == InitMacd /\ [][NextMacd]_vars

\* C28: for MACD and PPO with 1 <= fast_period < slow_period, signal_period >= 1
\* and a series of n >= slow_period + signal_period candles, the kernel call emits
\* exactly the points of the indices slow_period + signal_period - 1 .. n - 1
\* (each emitted point has a line and a signal that are numbers).
C28_Original ==
    LET p == probe.in.job.params
    IN (/\ probe.done
        /\ 1 <= p.fast_period
        /\ p.fast_period < p.slow_period
        /\ p.signal_period >= 1
        /\ probe.in.n >= p.slow_period + p.signal_period)
          => /\ probe.out.status = "ok"
             /\ probe.out.indices = IndexRange(p.slow_period + p.signal_period - 1, probe.in.n)

\* ------------------------------------------------------------------ parameter resolution
\* the values a config gives to a parameter: 1..MaxParam (whole numbers for the
\* periods, tenths for deviation and penetration)
MaxParam == 2

\* params["name"].as_f64().unwrap_or(default), in tenths: any number present
\* under the name, else the default
as_f64_or(params, name, default) ==
    IF name \in DOMAIN params THEN params[name] ELSE default

\* the arguments the worker computes a kernel with: for each match arm of
\* calculate_oscillator, calculate_overlap and calculate_pattern, the parameter
\* names it reads and the defaults it falls back to. BBANDS has one deviation,
\* used for both bands
kernel_arguments(job) ==
    CASE job.name = "RSI" -> [period |-> as_u64_or(job.params, "period", 14)]
      [] job.name = "CCI" -> [period |-> as_u64_or(job.params, "period", 20)]
      [] job.name = "STOCH" ->
            [k_period |-> as_u64_or(job.params, "k_period", 14),
             slowing |-> as_u64_or(job.params, "k_slowing", 3),
             d_period |-> as_u64_or(job.params, "d_period", 3)]
      [] job.name = "STOCHRSI" ->
            [period |-> as_u64_or(job.params, "period", 14),
             k_period |-> as_u64_or(job.params, "k_period", 9),
             d_period |-> as_u64_or(job.params, "d_period", 3)]
      [] job.name = "EMA" -> [period |-> as_u64_or(job.params, "period", 20)]
      [] job.name = "BBANDS" ->
            [period |-> as_u64_or(job.params, "period", 20),
             deviation_up |-> as_f64_or(job.params, "deviation", 20),
             deviation_down |-> as_f64_or(job.params, "deviation", 20)]
      [] job.name = "CDLMORNINGSTAR" ->
            [penetration |-> as_f64_or(job.params, "penetration", 5)]

\* the kernels probed and, for each, the parameter names a config may give
ConfigNames(name) ==
    CASE name \in {"RSI", "CCI", "EMA"} -> {"period"}
      [] name = "STOCH" -> {"k_period", "slowing", "d_period"}
      [] name = "STOCHRSI" -> {"period", "k_period", "d_period"}
      [] name = "BBANDS" -> {"period", "deviation_up", "deviation_down"}
      [] name = "CDLMORNINGSTAR" -> {"penetration"}

ParamInputs ==
    UNION {{[name |-> nm, params |-> p] :
              p \in UNION {[keys -> 1..MaxParam] : keys \in SUBSET ConfigNames(nm)}} :
           nm \in {"RSI", "CCI", "EMA", "STOCH", "STOCHRSI", "BBANDS", "CDLMORNINGSTAR"}}

InitParams ==
    /\ InitButProbe
    /\ \E t \in ParamInputs : probe = [done |-> FALSE, in |-> t]

\* calculate_indicator up to the kernel call: the arguments are read from the
\* Job's parameters
resolve_call ==
    /\ ~probe.done
    /\ probe' = [done |-> TRUE, in |-> probe.in, args |-> kernel_arguments(probe.in)]
    /\ UNCHANGED workerVars

NextParams == resolve_call

SpecParams == InitParams /\ [][NextParams]_vars

\* the defaults of the specification's parameter table (deviations and
\* penetration in tenths), by kernel and parameter name
TableDefault(name, param) ==
    CASE name = "RSI" -> 14
      [] name = "CCI" -> 14
      [] name = "EMA" -> 9
      [] name = "STOCH" -> IF param = "k_period" THEN 14 ELSE 3
      [] name = "STOCHRSI" -> IF param = "period" THEN 14
                              ELSE IF param = "k_period" THEN 5 ELSE 3
      [] name = "BBANDS" -> 20
      [] name = "CDLMORNINGSTAR" -> 3

\* C29: every parameter of the table that the config gives under its table name
\* is the value the kernel is computed with, and every one the config does not
\* give takes the table's default.
C29_Original ==
    probe.done =>
      \A param \in ConfigNames(probe.in.name) :
         probe.args[param] = IF param \in DOMAIN probe.in.params
                             THEN probe.in.params[param]
                             ELSE TableDefault(probe.in.name, param)

\* ------------------------------------------------------------------ incomplete jobs
\* the name and kind of the config behind a fingerprint: one of these indicators
ConfigKinds ==
    {[name |-> "RSI", kind |-> "oscillator"], [name |-> "SMA", kind |-> "overlap"],
     [name |-> "OBV", kind |-> "volume"]}

\* str::to_lowercase on the indicator names
to_lowercase(s) ==
    CASE s = "RSI" -> "rsi"
      [] s = "SMA" -> "sma"
      [] s = "OBV" -> "obv"
      [] OTHER -> s

\* IndicatorType::from(&str): the kind spelled by the string, Oscillator for
\* any other string
IndicatorType_from(s) ==
    IF to_lowercase(s) \in {"oscillator", "overlap", "volume", "volatility", "pattern"}
    THEN to_lowercase(s)
    ELSE "oscillator"

\* CompletenessCache::get_incomplete_jobs: one Job for every stored record that
\* is valid and not complete, built from the record's fields (the record of
\* fingerprint f holds the symbol, interval, name and parameters of the config
\* of f), its kind converted from the indicator name
get_incomplete_jobs(cache, configOf) ==
    {[fp |-> f, name |-> configOf[f].name, kind |-> IndicatorType_from(configOf[f].name)] :
        f \in {g \in Fingerprints :
                 cache[g].present /\ ~cache[g].is_complete /\ is_valid(cache[g])}}

InitIncomplete ==
    /\ InitButProbe
    /\ \E c \in [Fingerprints -> ConfigKinds] : probe = [done |-> FALSE, configs |-> c]

\* a call of get_incomplete_jobs
incomplete_call ==
    /\ probe' = [done |-> TRUE, configs |-> probe.configs,
                 out |-> get_incomplete_jobs(ccache, probe.configs)]
    /\ UNCHANGED workerVars

NextIncomplete ==
    \/ cache_update
    \/ cache_remove
    \/ cache_clear
    \/ cache_clock
    \/ incomplete_call

SpecIncomplete == InitIncomplete /\ [][NextIncomplete]_vars

\* C30: after any updates of the cache, a call of get_incomplete_jobs returns
\* exactly one Job for every stored record that is fresh and not complete, with
\* the symbol, interval, name and parameters (the fingerprint) and the kind of
\* the Job the record was created from.
C30_Original ==
    [][(probe'.done /\ probe' # probe)
         => probe'.out =
              {[fp |-> f, name |-> probe.configs[f].name, kind |-> probe.configs[f].kind] :
                 f \in {g \in Fingerprints :
                          /\ ccache[g].present
                          /\ ~ccache[g].is_complete
                          /\ now - ccache[g].updated_at < ttl_minutes}}]_vars

====
